---- MODULE Spec2Model ----
(***************************************************************************)
(* DexFileManager: the organize / undo / cleanup pipeline of               *)
(* src/organizer.py and the collision resolver of src/utils.py.            *)
(*                                                                         *)
(* A file name is a sequence of one-character strings, a path is the       *)
(* sequence of names below the source directory (<<>> is the source        *)
(* directory itself), and the file system is a function from the existing  *)
(* paths to nodes.                                                         *)
(***************************************************************************)
EXTENDS Integers, Sequences, FiniteSets, TLC

(***************************************************************************)
(* Bounds of the model.                                                    *)
(***************************************************************************)
\* number of distinct file contents the environment writes
NContents == 2
\* number of distinct modification months the environment stamps
NMonths == 1
\* environment steps (file creations, permission changes, removals) per run
MaxEnv == 3
\* organize() / undo() invocations per run
MaxCalls == 3

(***************************************************************************)
(* Names used by the program and by the environment.                       *)
(***************************************************************************)
Others == <<"O", "t", "h", "e", "r", "s">>
Docs == <<"D", "o", "c", "s">>
Pics == <<"P", "i", "c", "s">>
txt == <<"t", "x", "t">>
pdf == <<"p", "d", "f">>
jpg == <<"j", "p", "g">>
a_txt == <<"a", ".", "t", "x", "t">>
b_JPG == <<"b", ".", "J", "P", "G">>
keep_me == <<"k", "e", "e", "p">>
x_tmp == <<"x", ".", "t", "m", "p">>
Imgs == <<"I", "m", "g", "s">>
PNG == <<"P", "N", "G">>
c_png == <<"c", ".", "p", "n", "g">>
c_PNG == <<"c", ".", "P", "N", "G">>
d_noext == <<"d">>
e_zip == <<"e", ".", "z", "i", "p">>
f_Pdf == <<"f", ".", "P", "d", "f">>
dot_rc == <<".", "r", "c">>
y_part == <<"y", ".", "p", "a", "r", "t">>
z_crdownload == <<"z", ".", "c", "r", "d", "o", "w", "n", "l", "o", "a", "d">>
config_yaml == <<"c", "o", "n", "f", "i", "g", ".", "y", "a", "m", "l">>
Stuff == <<"S", "t", "u", "f", "f">>
Sub == <<"S", "u", "b">>
dot_git == <<".", "g", "i", "t">>
refs == <<"r", "e", "f", "s">>

\* organizer.py:50
project_files ==
  { <<"m", "a", "i", "n", ".", "p", "y">>,
    <<"o", "r", "g", "a", "n", "i", "z", "e", "r", ".", "p", "y">>,
    <<"u", "t", "i", "l", "s", ".", "p", "y">>,
    <<"c", "o", "n", "f", "i", "g", ".", "y", "a", "m", "l">>,
    <<"r", "e", "q", "u", "i", "r", "e", "m", "e", "n", "t", "s", ".", "t", "x", "t">>,
    <<"R", "E", "A", "D", "M", "E", ".", "m", "d">>,
    <<".", "g", "i", "t">>,
    <<".", "d", "e", "x", "_", "h", "i", "s", "t", "o", "r", "y", ".", "j", "s", "o", "n">> }

\* organizer.py:58
partial_suffixes ==
  { <<".", "c", "r", "d", "o", "w", "n", "l", "o", "a", "d">>,
    <<".", "p", "a", "r", "t">>,
    <<".", "t", "m", "p">> }

\* the configuration the organizer is constructed with (organizer.py:22-24):
\* an ordered mapping folder -> extensions, and the ignore set
mappings ==
  << [folder |-> Docs, extensions |-> {txt, pdf}],
     [folder |-> Pics, extensions |-> {jpg, txt}],
     [folder |-> Imgs, extensions |-> {PNG}] >>

ignore_list == {keep_me}

\* history = history[-10:]   (organizer.py:168)
HistoryCap == 10

\* the year every modelled modification time lies in
Year == <<"2", "0", "2", "4">>

(***************************************************************************)
(* Strings.                                                                *)
(***************************************************************************)
Last(s) == s[Len(s)]

Front(s) == SubSeq(s, 1, Len(s) - 1)

DigitChar == <<"0", "1", "2", "3", "4", "5", "6", "7", "8", "9">>

RECURSIVE Str(_)
\* str(n) of a natural number, as f"{counter}" formats it
Str(n) == IF n < 10 THEN <<DigitChar[n + 1]>>
          ELSE Str(n \div 10) \o <<DigitChar[(n % 10) + 1]>>

UpperToLower ==
  "A" :> "a" @@ "B" :> "b" @@ "C" :> "c" @@ "D" :> "d" @@ "E" :> "e" @@
  "F" :> "f" @@ "G" :> "g" @@ "H" :> "h" @@ "I" :> "i" @@ "J" :> "j" @@
  "K" :> "k" @@ "L" :> "l" @@ "M" :> "m" @@ "N" :> "n" @@ "O" :> "o" @@
  "P" :> "p" @@ "Q" :> "q" @@ "R" :> "r" @@ "S" :> "s" @@ "T" :> "t" @@
  "U" :> "u" @@ "V" :> "v" @@ "W" :> "w" @@ "X" :> "x" @@ "Y" :> "y" @@
  "Z" :> "z"

\* str.lower()
Lower(s) == [i \in 1..Len(s) |->
               IF s[i] \in DOMAIN UpperToLower THEN UpperToLower[s[i]] ELSE s[i]]

RECURSIVE LStripDots(_)
\* str.lstrip(".")
LStripDots(s) == IF s # <<>> /\ s[1] = "." THEN LStripDots(Tail(s)) ELSE s

\* str.startswith(".")
StartsWithDot(s) == s # <<>> /\ s[1] = "."

\* index of the last "." of a name, 0 when there is none (str.rfind + 1)
LastDot(name) ==
  LET dots == {i \in 1..Len(name) : name[i] = "."}
  IN  IF dots = {} THEN 0 ELSE CHOOSE i \in dots : \A j \in dots : j <= i

\* pathlib's PurePath.suffix: the last dot and what follows it, unless the
\* dot is the first or the last character of the name
Suffix(name) ==
  LET i == LastDot(name)
  IN  IF 1 < i /\ i < Len(name) THEN SubSeq(name, i, Len(name)) ELSE <<>>

\* pathlib's PurePath.stem
Stem(name) ==
  LET i == LastDot(name)
  IN  IF 1 < i /\ i < Len(name) THEN SubSeq(name, 1, i - 1) ELSE name

(***************************************************************************)
(* The file system below the source directory.                             *)
(***************************************************************************)
Contents == 1..NContents

Months == 1..NMonths

\* what can be wrong with a file: "unreadable" fails open(), "immutable"
\* fails rename() and unlink()
Perms == {"ok", "unreadable", "immutable"}

DirNode == [kind |-> "dir", content |-> 0, mtime |-> 0, perm |-> "ok"]

FileNode(c, m, p) == [kind |-> "file", content |-> c, mtime |-> m, perm |-> p]

SourceDir == <<>>

\* Path.exists()
Exists(f, p) == p = SourceDir \/ p \in DOMAIN f

\* Path.is_file()
IsFile(f, p) == p \in DOMAIN f /\ f[p].kind = "file"

\* Path.is_dir()
IsDir(f, p) == p = SourceDir \/ (p \in DOMAIN f /\ f[p].kind = "dir")

IsPrefix(d, p) == Len(d) <= Len(p) /\ SubSeq(p, 1, Len(d)) = d

\* Path.iterdir(): the entries directly inside directory d
Entries(f, d) == {p \in DOMAIN f : Len(p) = Len(d) + 1 /\ IsPrefix(d, p)}

Restrict(f, S) == [p \in S |-> f[p]]

\* the tree without path p and everything below it
Without(f, p) == Restrict(f, {q \in DOMAIN f : ~IsPrefix(p, q)})

\* Path.mkdir(parents=True, exist_ok=True) where no component is a file
MkDirs(f, d) ==
  LET new == {SubSeq(d, 1, i) : i \in 1..Len(d)} \ DOMAIN f
  IN  [p \in DOMAIN f \cup new |-> IF p \in new THEN DirNode ELSE f[p]]

\* a successful os.rename(src, dst): src and what is below it now live at
\* dst, replacing what was there
Renamed(f, src, dst) ==
  LET kept  == {q \in DOMAIN f : ~IsPrefix(src, q) /\ ~IsPrefix(dst, q)}
      moved == {q \in DOMAIN f : IsPrefix(src, q)}
      To(q) == dst \o SubSeq(q, Len(src) + 1, Len(q))
  IN  [p \in kept \cup {To(q) : q \in moved} |->
         IF p \in kept THEN f[p]
         ELSE f[CHOOSE q \in moved : To(q) = p]]

\* the distinct file contents held somewhere in the tree
ContentsOf(f) == {f[p].content : p \in {q \in DOMAIN f : f[q].kind = "file"}}

(***************************************************************************)
(* utils.py                                                                *)
(***************************************************************************)
None == <<>>

NoHash == 0

\* hashlib.sha256 of a content: distinct contents have distinct digests
Sha256(c) == 1000 + c

\* a digest taken of the file's name instead of its content
get_file_hash_of_name(f, p) ==
  IF IsFile(f, p) /\ f[p].perm # "unreadable" THEN Sha256(Len(Last(p)))
  ELSE NoHash

\* a digest that is available whether or not the file can be read
get_file_hash_ignores_perm(f, p) ==
  IF IsFile(f, p) THEN Sha256(f[p].content) ELSE NoHash

\* get_file_hash: the digest, or None when the file cannot be read
get_file_hash(f, p) ==
  IF IsFile(f, p) /\ f[p].perm # "unreadable" THEN Sha256(f[p].content)
  ELSE NoHash

\* os.remove(p): [fs, ok]
os_remove(f, p) ==
  IF IsFile(f, p) /\ f[p].perm # "immutable"
  THEN [fs |-> Without(f, p), ok |-> TRUE]
  ELSE [fs |-> f, ok |-> FALSE]

\* a move that leaves the source file where it is
shutil_move_keeps_src(f, src, dst) ==
  IF ~IsFile(f, src) \/ ~IsDir(f, Front(dst))
  THEN [fs |-> f, ok |-> FALSE]
  ELSE [fs |-> [p \in DOMAIN f \cup {dst} |-> IF p = dst THEN f[src] ELSE f[p]],
        ok |-> TRUE]

\* shutil.move(src, dst) for a dst that does not exist: os.rename, and when
\* that raises OSError, copy2 followed by os.unlink. [fs, ok]
shutil_move(f, src, dst) ==
  IF ~IsFile(f, src) \/ ~IsDir(f, Front(dst))
  THEN [fs |-> f, ok |-> FALSE]
  ELSE IF f[src].perm # "immutable"
  THEN [fs |-> Renamed(f, src, dst), ok |-> TRUE]
  ELSE \* rename refused: the copy succeeds, the unlink raises
       [fs |-> [p \in DOMAIN f \cup {dst} |->
                  IF p = dst THEN FileNode(f[src].content, f[src].mtime, "ok")
                  ELSE f[p]],
        ok |-> FALSE]

\* the first suffixed name, taken without looking whether it is free
NextFreeName_once(f, dest_folder, stem, suffix, counter) ==
  Append(dest_folder, stem \o <<"_">> \o Str(counter) \o suffix)

RECURSIVE NextFreeName(_, _, _, _, _)
\* the while loop of safe_move (utils.py:71-73)
NextFreeName(f, dest_folder, stem, suffix, counter) ==
  LET dest_path == Append(dest_folder, stem \o <<"_">> \o Str(counter) \o suffix)
  IN  IF Exists(f, dest_path)
      THEN NextFreeName(f, dest_folder, stem, suffix, counter + 1)
      ELSE dest_path

\* MoveTo without the except clause: a failed move raises out of safe_move
MoveTo_raises(f, source_path, dest_path, dry) ==
  IF dry THEN [fs |-> f, final_path |-> dest_path, exc |-> FALSE]
  ELSE LET r == shutil_move(f, source_path, dest_path)
       IN  [fs |-> r.fs, final_path |-> IF r.ok THEN dest_path ELSE None,
            exc |-> ~r.ok]

\* MoveTo returning dest_path after the try statement, failed move or not
MoveTo_returns_target(f, source_path, dest_path, dry) ==
  IF dry THEN [fs |-> f, final_path |-> dest_path, exc |-> FALSE]
  ELSE [fs |-> shutil_move(f, source_path, dest_path).fs,
        final_path |-> dest_path, exc |-> FALSE]

\* the tail of safe_move (utils.py:75-85): [fs, final_path, exc]; the except
\* clause turns a failed move into final_path None, and no exception escapes
MoveTo(f, source_path, dest_path, dry) ==
  IF dry THEN [fs |-> f, final_path |-> dest_path, exc |-> FALSE]
  ELSE LET r == shutil_move(f, source_path, dest_path)
       IN  [fs |-> r.fs, final_path |-> IF r.ok THEN dest_path ELSE None,
            exc |-> FALSE]

\* safe_move(source_path, dest_folder, dry_run): [fs, final_path, exc],
\* final_path None for a deleted duplicate and for a failed move, exc whether
\* an exception leaves safe_move
safe_move(f0, source_path, dest_folder, dry) ==
  LET f == IF ~Exists(f0, dest_folder) /\ ~dry THEN MkDirs(f0, dest_folder) ELSE f0
      name == Last(source_path)
      dest_path == Append(dest_folder, name)
  IN  IF Exists(f, dest_path)
      THEN LET source_hash == get_file_hash(f, source_path)
               dest_hash == get_file_hash(f, dest_path)
           IN  IF source_hash # NoHash /\ dest_hash # NoHash /\ source_hash = dest_hash
               THEN [fs |-> IF dry THEN f ELSE os_remove(f, source_path).fs,
                     final_path |-> None, exc |-> FALSE]
               ELSE MoveTo(f, source_path,
                           NextFreeName(f, dest_folder, Stem(name), Suffix(name), 1),
                           dry)
      ELSE MoveTo(f, source_path, dest_path, dry)

(***************************************************************************)
(* organizer.py: classification, history store, cleanup                    *)
(***************************************************************************)
\* _get_extension_folder
_get_extension_folder(name) ==
  LET ext == Lower(LStripDots(Suffix(name)))
      hits == {i \in 1..Len(mappings) : ext \in mappings[i].extensions}
  IN  IF ext = <<>> \/ hits = {} THEN Others
      ELSE mappings[CHOOSE i \in hits : \A j \in hits : i <= j].folder

\* strftime("%Y-%m") of a modification time
StrfTime(m) == Year \o <<"-">> \o (IF m < 10 THEN <<"0">> ELSE <<>>) \o Str(m)

\* _get_date_folder of a file that exists (stat() raises when it does not)
_get_date_folder(f, p) == StrfTime(f[p].mtime)

\* s[:n]
LastN_first(s, n) == IF Len(s) <= n THEN s ELSE SubSeq(s, 1, n)

\* s[-n:]
LastN(s, n) == IF Len(s) <= n THEN s ELSE SubSeq(s, Len(s) - n + 1, Len(s))

\* _save_history: the history file after appending the batch
_save_history(h, batch, now) ==
  LET loaded == IF h.exists THEN h.batches ELSE <<>>
      entry  == [timestamp |-> now, moves |-> batch]
  IN  [exists |-> TRUE, batches |-> LastN(Append(loaded, entry), HistoryCap)]

Depth(f) == IF DOMAIN f = {} THEN 0
            ELSE CHOOSE n \in {Len(p) : p \in DOMAIN f} :
                   \A p \in DOMAIN f : Len(p) <= n

RECURSIVE CleanupFrom(_, _)
\* the bottom-up walk: every directory is looked at after everything below it
CleanupFrom(f, depth) ==
  IF depth = 0 THEN f
  ELSE LET empty == {p \in DOMAIN f : /\ Len(p) = depth
                                     /\ f[p].kind = "dir"
                                     /\ ~StartsWithDot(Last(p))
                                     /\ Entries(f, p) = {}}
       IN  CleanupFrom(Restrict(f, DOMAIN f \ empty), depth - 1)

\* one pass over the tree as it was found: a folder that is emptied by the
\* pass itself stays
_cleanup_one_pass(f) ==
  Restrict(f, DOMAIN f \ {p \in DOMAIN f : /\ f[p].kind = "dir"
                                           /\ ~StartsWithDot(Last(p))
                                           /\ Entries(f, p) = {}})

\* _cleanup_empty_folders
_cleanup_empty_folders(f) == CleanupFrom(f, Depth(f))

(***************************************************************************)
(* State.                                                                  *)
(***************************************************************************)
VARIABLES
  fs,                  \* the tree below the source directory
  history_file,        \* .dex_history.json: [exists, batches]
  pc,                  \* "idle", or where organize() stands: "scan", "classify", "move"
  dry_run,             \* self.dry_run of the running organize()
  strategy,            \* self.strategy of the running organize()
  listing,             \* entries of source_dir.iterdir() not yet visited
  file_path,           \* the loop variable of organize()
  target_folder_name,  \* the local of organize()
  moved_count,         \* the local of organize()
  current_batch,       \* the local of organize()
  last,                \* what the last finished call was and returned
  calls,               \* calls started so far (the clock of the timestamps)
  envSteps,            \* environment steps so far
  quiet,               \* no environment step since the last call finished
  raced,               \* an environment step fell inside the last call
  before,              \* the tree when the last organize() started
  undone_stamps,       \* timestamps of the batches a real undo() has reverted
  appended             \* every batch ever appended and not reverted since

vars == <<fs, history_file, pc, dry_run, strategy, listing, file_path,
          target_folder_name, moved_count, current_batch, last, calls,
          envSteps, quiet, raced, before, undone_stamps, appended>>

locals == <<dry_run, strategy, listing, file_path, target_folder_name,
            moved_count, current_batch>>

ghosts == <<before, undone_stamps, appended>>

Strategies == {"extension", "date"}

\* os.name of the platform the tool runs on
Platforms == {"posix", "nt"}

\* names of the files the environment drops into the source directory
DropNames == {a_txt, b_JPG}

EmptyFs == [p \in {} |-> DirNode]

NoPrev == [op |-> "none", dry |-> FALSE, raised |-> FALSE, ret |-> 0,
           raced |-> FALSE]

\* the record of a call: op, dry and strategy say what was called; raised and
\* ret how it ended (ret of an undo() is 1 when it found a batch); moves the
\* batch it built or reverted; undone the records undo() visited, in order;
\* stamp the timestamp of that batch; raced and calm whether the environment
\* stepped during the call, or between the previous call and the end of this
\* one; prev the call before it; recursive the --recursive flag of a run of
\* main()
NoCall == [op |-> "none", dry |-> FALSE, strategy |-> "extension",
           recursive |-> FALSE, raised |-> FALSE, ret |-> 0, moves |-> <<>>, undone |-> <<>>,
           stamp |-> 0, raced |-> FALSE, calm |-> TRUE, prev |-> NoPrev]

\* the record of the call that ends with this step
Ended(rec, racedNow) ==
  [rec EXCEPT !.raced = racedNow,
              !.calm = quiet,
              !.prev = [op |-> last.op, dry |-> last.dry, raised |-> last.raised,
                        ret |-> last.ret, raced |-> last.raced]]

\* the state when the tool is first pointed at a source directory holding f
InitWith(f) ==
  /\ fs = f
  /\ history_file = [exists |-> FALSE, batches |-> <<>>]
  /\ pc = "idle"
  /\ dry_run = FALSE
  /\ strategy = "extension"
  /\ listing = {}
  /\ file_path = None
  /\ target_folder_name = <<>>
  /\ moved_count = 0
  /\ current_batch = <<>>
  /\ last = NoCall
  /\ calls = 0
  /\ envSteps = 0
  /\ quiet = TRUE
  /\ raced = FALSE
  /\ before = EmptyFs
  /\ undone_stamps = {}
  /\ appended = <<>>

Init == InitWith(EmptyFs)

\* the locals of organize() once the call is over
ResetLocals ==
  /\ dry_run' = FALSE
  /\ strategy' = "extension"
  /\ listing' = {}
  /\ file_path' = None
  /\ target_folder_name' = <<>>
  /\ moved_count' = 0
  /\ current_batch' = <<>>

(***************************************************************************)
(* The environment: the user and other processes working in the directory. *)
(***************************************************************************)
EnvStep(maxEnv) ==
  /\ envSteps < maxEnv
  /\ envSteps' = envSteps + 1
  /\ quiet' = FALSE
  /\ raced' = (raced \/ pc # "idle")
  /\ UNCHANGED <<history_file, pc, locals, last, calls, ghosts>>

\* a new file appears in the source directory, between two calls
DoCreateFile(names, contents, months, maxEnv) ==
  /\ pc = "idle"
  /\ \E name \in names, c \in contents, m \in months :
       /\ ~Exists(fs, <<name>>)
       /\ fs' = [p \in DOMAIN fs \cup {<<name>>} |->
                   IF p = <<name>> THEN FileNode(c, m, "ok") ELSE fs[p]]
  /\ EnvStep(maxEnv)

CreateFile == DoCreateFile(DropNames, Contents, Months, MaxEnv)

\* the permissions of a file change, between two calls
Chmod ==
  /\ pc = "idle"
  /\ \E p \in DOMAIN fs, perm \in Perms :
       /\ fs[p].kind = "file"
       /\ fs[p].perm # perm
       /\ fs' = [fs EXCEPT ![p].perm = perm]
  /\ EnvStep(MaxEnv)

\* another process removes a file, at any moment (also in the middle of a scan)
ExternalRemove ==
  /\ \E p \in DOMAIN fs :
       /\ fs[p].kind = "file"
       /\ fs' = Without(fs, p)
  /\ EnvStep(MaxEnv)

(***************************************************************************)
(* organize()                                                              *)
(***************************************************************************)
\* every path of the tree, as a recursive listing would return it
iterdir_recursive(f) == DOMAIN f

\* self.source_dir.iterdir(): the direct children of the source directory
iterdir(f) == Entries(f, SourceDir)

\* organizer.py:38-52: the empty-directory return, or the listing is taken
DoOrganizeStart(dries, strategies, maxCalls) ==
  /\ pc = "idle"
  /\ calls < maxCalls
  /\ calls' = calls + 1
  /\ raced' = FALSE
  /\ before' = fs
  /\ \E dry \in dries, strat \in strategies :
       IF iterdir(fs) = {} /\ ~history_file.exists
       THEN /\ last' = Ended([NoCall EXCEPT !.op = "organize", !.dry = dry,
                                            !.strategy = strat], FALSE)
            /\ quiet' = TRUE
            /\ UNCHANGED <<pc, locals>>
       ELSE /\ pc' = "scan"
            /\ dry_run' = dry
            /\ strategy' = strat
            /\ listing' = iterdir(fs)
            /\ moved_count' = 0
            /\ current_batch' = <<>>
            /\ UNCHANGED <<file_path, target_folder_name, last, quiet>>
  /\ UNCHANGED <<fs, history_file, envSteps, undone_stamps, appended>>

OrganizeStart == DoOrganizeStart(BOOLEAN, Strategies, MaxCalls)

\* the filters without the test for partial downloads
Skipped_no_partial(f, p) ==
  \/ ~IsFile(f, p)
  \/ Last(p) \in ignore_list
  \/ Last(p) \in project_files

\* the filters of organizer.py:53-59 on a directory entry
Skipped(f, p) ==
  \/ ~IsFile(f, p)
  \/ Last(p) \in ignore_list
  \/ Last(p) \in project_files
  \/ Suffix(Last(p)) \in partial_suffixes

\* organizer.py:52-59: the next entry of the listing, in any order
OrganizeNext ==
  /\ pc = "scan"
  /\ \E p \in listing :
       /\ listing' = listing \ {p}
       /\ IF Skipped(fs, p)
          THEN UNCHANGED <<pc, file_path>>
          ELSE pc' = "classify" /\ file_path' = p
  /\ UNCHANGED <<fs, history_file, dry_run, strategy, target_folder_name,
                 moved_count, current_batch, last, calls, envSteps, quiet,
                 raced, ghosts>>

\* an exception leaves organize(): nothing of the call is saved
OrganizeRaise ==
  /\ pc' = "idle"
  /\ last' = Ended([NoCall EXCEPT !.op = "organize", !.dry = dry_run,
                                  !.strategy = strategy, !.raised = TRUE,
                                  !.stamp = calls], raced)
  /\ quiet' = TRUE
  /\ ResetLocals

\* organizer.py:61, 192-216: _get_target_folder; stat() of a vanished file
\* raises out of organize()
OrganizeClassify ==
  /\ pc = "classify"
  /\ IF strategy = "date" /\ ~Exists(fs, file_path)
     THEN OrganizeRaise
     ELSE /\ pc' = "move"
          /\ target_folder_name' =
               IF strategy = "date" THEN _get_date_folder(fs, file_path)
               ELSE _get_extension_folder(Last(file_path))
          /\ UNCHANGED <<dry_run, strategy, listing, file_path, moved_count,
                         current_batch, last, quiet>>
  /\ UNCHANGED <<fs, history_file, calls, envSteps, raced, ghosts>>

\* organizer.py:63-72: safe_move and the bookkeeping of a successful move
OrganizeMove ==
  /\ pc = "move"
  /\ LET r == safe_move(fs, file_path, <<target_folder_name>>, dry_run)
     IN  /\ fs' = r.fs
         /\ IF r.exc
            THEN OrganizeRaise
            ELSE /\ pc' = "scan"
                 /\ IF r.final_path # None
                    THEN /\ moved_count' = moved_count + 1
                         /\ current_batch' =
                              Append(current_batch,
                                     [src |-> file_path, dest |-> r.final_path])
                    ELSE UNCHANGED <<moved_count, current_batch>>
                 /\ UNCHANGED <<dry_run, strategy, listing, file_path,
                                target_folder_name, last, quiet>>
  /\ UNCHANGED <<history_file, calls, envSteps, raced, ghosts>>

\* organizer.py:76-96: save the batch, clean up, return moved_count
OrganizeFinish ==
  /\ pc = "scan"
  /\ listing = {}
  /\ LET saving == moved_count > 0 /\ ~dry_run
         saved == _save_history(history_file, current_batch, calls)
     IN  /\ history_file' = IF saving THEN saved ELSE history_file
         /\ appended' = IF saving THEN Append(appended, Last(saved.batches))
                        ELSE appended
  /\ fs' = IF ~dry_run THEN _cleanup_empty_folders(fs) ELSE fs
  /\ last' = Ended([NoCall EXCEPT !.op = "organize", !.dry = dry_run,
                                  !.strategy = strategy, !.ret = moved_count,
                                  !.moves = current_batch, !.stamp = calls],
                    raced)
  /\ pc' = "idle"
  /\ quiet' = TRUE
  /\ ResetLocals
  /\ UNCHANGED <<calls, envSteps, raced, before, undone_stamps>>

(***************************************************************************)
(* undo()                                                                  *)
(***************************************************************************)
\* os.rename(src, dst) as undo() calls it, after src_orig.parent.mkdir:
\* [fs, ok]. On POSIX a file silently replaces an existing file; on Windows
\* an existing dst raises FileExistsError.
os_rename(f, src, dst, os_name) ==
  LET parents == {SubSeq(dst, 1, i) : i \in 1..(Len(dst) - 1)}
      g == MkDirs(f, Front(dst))
      refused ==
        \/ ~Exists(f, src)
        \/ f[src].perm = "immutable"
        \/ IsPrefix(src, dst)
        \/ /\ Exists(f, dst)
           /\ \/ os_name = "nt"
              \/ f[dst].perm = "immutable"
              \/ f[src].kind # f[dst].kind
              \/ Entries(f, dst) # {}
  IN  IF \E d \in parents : IsFile(f, d) THEN [fs |-> f, ok |-> FALSE]
      ELSE IF refused THEN [fs |-> g, ok |-> FALSE]
      ELSE [fs |-> Renamed(g, src, dst), ok |-> TRUE]

RECURSIVE UndoMoves_checks_src(_, _, _, _, _)
\* UndoMoves with the existence test on the wrong path of the record
UndoMoves_checks_src(f, moves, i, dry, os_name) ==
  IF i = 0 THEN [fs |-> f, visited |-> <<>>]
  ELSE LET move == moves[i]
           g == IF Exists(f, move.src) /\ ~dry
                THEN os_rename(f, move.dest, move.src, os_name).fs
                ELSE f
           rest == UndoMoves_checks_src(g, moves, i - 1, dry, os_name)
       IN  [fs |-> rest.fs, visited |-> <<move>> \o rest.visited]

RECURSIVE UndoMoves_stops_at_missing(_, _, _, _, _)
\* UndoMoves leaving the loop at the first record whose destination is gone
UndoMoves_stops_at_missing(f, moves, i, dry, os_name) ==
  IF i = 0 THEN [fs |-> f, visited |-> <<>>]
  ELSE LET move == moves[i]
       IN  IF ~Exists(f, move.dest) THEN [fs |-> f, visited |-> <<move>>]
           ELSE LET g == IF ~dry
                         THEN os_rename(f, move.dest, move.src, os_name).fs
                         ELSE f
                    rest == UndoMoves_stops_at_missing(g, moves, i - 1, dry,
                                                       os_name)
                IN  [fs |-> rest.fs, visited |-> <<move>> \o rest.visited]

RECURSIVE UndoMoves(_, _, _, _, _)
\* organizer.py:116-135: the records moves[1..i] still to visit, from the
\* last one down; [fs, visited], visited the records in the order of the visits
UndoMoves(f, moves, i, dry, os_name) ==
  IF i = 0 THEN [fs |-> f, visited |-> <<>>]
  ELSE LET move == moves[i]
           g == IF Exists(f, move.dest) /\ ~dry
                THEN os_rename(f, move.dest, move.src, os_name).fs
                ELSE f
           rest == UndoMoves(g, moves, i - 1, dry, os_name)
       IN  [fs |-> rest.fs, visited |-> <<move>> \o rest.visited]

\* reading the last batch without removing it
Pop_peek(history) == [history |-> history, last_batch |-> Last(history)]

\* history.pop(): [history, last_batch]
Pop(history) == [history |-> Front(history), last_batch |-> Last(history)]

\* organizer.py:98-147
DoUndo(dries, maxCalls, maxUndos) ==
  /\ pc = "idle"
  /\ calls < maxCalls
  /\ Cardinality(undone_stamps) < maxUndos
  /\ calls' = calls + 1
  /\ \E dry \in dries, os_name \in Platforms :
       IF ~history_file.exists \/ history_file.batches = <<>>
       THEN /\ last' = Ended([NoCall EXCEPT !.op = "undo", !.dry = dry], FALSE)
            /\ UNCHANGED <<fs, history_file, undone_stamps, appended>>
       ELSE LET popped == Pop(history_file.batches)
                moves == popped.last_batch.moves
                r == UndoMoves(fs, moves, Len(moves), dry, os_name)
            IN  /\ history_file' = IF dry THEN history_file
                                   ELSE [exists |-> TRUE, batches |-> popped.history]
                /\ fs' = _cleanup_empty_folders(r.fs)
                /\ last' = Ended([NoCall EXCEPT
                                    !.op = "undo", !.dry = dry, !.ret = 1,
                                    !.moves = moves, !.undone = r.visited,
                                    !.stamp = popped.last_batch.timestamp],
                                  FALSE)
                /\ undone_stamps' =
                     IF dry THEN undone_stamps
                     ELSE undone_stamps \cup {popped.last_batch.timestamp}
                /\ appended' = IF dry \/ appended = <<>> THEN appended
                               ELSE Front(appended)
  /\ quiet' = TRUE
  /\ raced' = FALSE
  /\ UNCHANGED <<pc, locals, envSteps, before>>

Undo == DoUndo(BOOLEAN, MaxCalls, MaxCalls)

(***************************************************************************)
(* Specification.                                                          *)
(***************************************************************************)
Next ==
  \/ CreateFile
  \/ Chmod
  \/ ExternalRemove
  \/ OrganizeStart
  \/ OrganizeNext
  \/ OrganizeClassify
  \/ OrganizeMove
  \/ OrganizeFinish
  \/ Undo

Spec == Init /\ [][Next]_vars

(***************************************************************************)
(* A long run of one user: the directory already holds Docs/a.txt, new     *)
(* files named a.txt with another content keep arriving, every call is a   *)
(* real one by extension. It is long enough to fill the history.           *)
(***************************************************************************)
\* environment steps of the long run
CapEnv == 11
\* calls of the long run
CapCalls == 12
\* batches reverted in the long run
CapUndos == 2

CapFs == (<<Docs>> :> DirNode) @@ (<<Docs, a_txt>> :> FileNode(1, 1, "ok"))

InitCap == InitWith(CapFs)

CapCreateFile == DoCreateFile({a_txt}, {2}, {1}, CapEnv)

CapOrganizeStart == DoOrganizeStart({FALSE}, {"extension"}, CapCalls)

CapUndo == DoUndo({FALSE}, CapCalls, CapUndos)

NextCap ==
  \/ CapCreateFile
  \/ CapOrganizeStart
  \/ OrganizeNext
  \/ OrganizeClassify
  \/ OrganizeMove
  \/ OrganizeFinish
  \/ CapUndo

SpecCap == InitCap /\ [][NextCap]_vars

(***************************************************************************)
(* The command line (main.py) and a source directory that is already       *)
(* populated: folders of the user, a hidden folder, a file in a subfolder, *)
(* a partial download, and one more file of any of the probe names.        *)
(***************************************************************************)
\* the parameters of FileOrganizer.__init__ (organizer.py:11)
InitParams == {"source_dir", "config_path", "dry_run", "strategy"}

\* the arguments main() constructs the organizer with (main.py:54)
MainArgs == {"source_dir", "dry_run", "strategy", "recursive"}

\* FileOrganizer(...): whether the call raises TypeError for an unexpected
\* keyword argument
__init__(args) == ~(args \subseteq InitParams)

\* main.py:34-96: one run of the command line
DoMain(maxCalls) ==
  /\ pc = "idle"
  /\ calls < maxCalls
  /\ \E dry \in BOOLEAN, strat \in Strategies, undo \in BOOLEAN,
        recursive \in BOOLEAN :
       IF __init__(MainArgs)
       THEN \* main.py:94-96: the exception is printed, exit status 1
            /\ calls' = calls + 1
            /\ last' = Ended([NoCall EXCEPT !.op = "main", !.dry = dry,
                                            !.strategy = strat,
                                            !.recursive = recursive,
                                            !.raised = TRUE, !.ret = 1], FALSE)
            /\ quiet' = TRUE
            /\ raced' = FALSE
            /\ UNCHANGED <<fs, history_file, pc, locals, envSteps, ghosts>>
       ELSE IF undo THEN DoUndo({dry}, maxCalls, maxCalls)
            ELSE DoOrganizeStart({dry}, {strat}, maxCalls)

\* calls per run on the populated directory
TreeCalls == 2

\* names of the one more file
ProbeNames == {a_txt, b_JPG, c_png, c_PNG, d_noext, e_zip, f_Pdf, dot_rc,
               x_tmp, y_part, z_crdownload, keep_me, config_yaml}

\* what the directory may hold besides
SeedNode ==
  (<<Stuff>> :> DirNode) @@ (<<Stuff, Sub>> :> DirNode) @@
  (<<Stuff, a_txt>> :> FileNode(1, 1, "ok")) @@
  (<<dot_git>> :> DirNode) @@ (<<dot_git, refs>> :> DirNode) @@
  (<<Docs>> :> DirNode) @@
  (<<x_tmp>> :> FileNode(1, 1, "ok"))

InitTree ==
  \E S \in SUBSET DOMAIN SeedNode, probe \in SUBSET ProbeNames :
    /\ \A p \in S : Len(p) > 1 => Front(p) \in S
    /\ Cardinality(probe) <= 1
    /\ InitWith([p \in S \cup {<<n>> : n \in probe} |->
                   IF p \in S THEN SeedNode[p] ELSE FileNode(2, 1, "ok")])

TreeOrganizeStart == DoOrganizeStart(BOOLEAN, Strategies, TreeCalls)

TreeUndo == DoUndo(BOOLEAN, TreeCalls, TreeCalls)

TreeMain == DoMain(TreeCalls)

NextTree ==
  \/ TreeOrganizeStart
  \/ OrganizeNext
  \/ OrganizeClassify
  \/ OrganizeMove
  \/ OrganizeFinish
  \/ TreeUndo
  \/ TreeMain

SpecTree == InitTree /\ [][NextTree]_vars

(***************************************************************************)
(* Steps of the tool, as seen from outside.                                *)
(***************************************************************************)
\* a step of organize() or undo(), not of the environment
ToolStep == envSteps' = envSteps /\ vars' # vars

\* a step that completes an undo() call
UndoStep == pc = "idle" /\ pc' = "idle" /\ calls' = calls + 1 /\ last'.op = "undo"

\* a step that completes an undo() call which found a batch to revert
UndoBatchStep == UndoStep /\ last'.ret = 1

\* the step of organize() that places one file
MoveStep == pc = "move" /\ ToolStep

\* the step that returns from organize() after the scan
FinishStep == pc = "scan" /\ pc' = "idle"

\* a step of a call that was not constructed with dry_run
RealStep == ToolStep /\ (IF pc = "idle" THEN pc' = "idle" /\ ~last'.dry ELSE ~dry_run)

\* a step of a call that was constructed with dry_run
DryStep == ToolStep /\ (IF pc = "idle" THEN pc' = "idle" /\ last'.dry ELSE dry_run)

(***************************************************************************)
(* Claims.                                                                 *)
(***************************************************************************)
\* C1: no data loss. Every step of a non-dry-run organize() or undo() keeps
\* every file content of the source tree: a content held by some file before
\* the step is held by some file after it.
C1_NoDataLoss == [][RealStep => ContentsOf(fs) \subseteq ContentsOf(fs')]_vars

\* the batch of the call before this step is all that folder F holds
HoldsOnlyBatch(F) ==
  \A q \in Entries(fs, F) : \E j \in 1..Len(last.moves) : last.moves[j].dest = q

\* the last call was a non-dry-run organize() that returned and that no other
\* process interfered with, and nothing has happened since
AfterCleanOrganize ==
  /\ last.op = "organize" /\ ~last.dry /\ ~last.raised /\ ~last.raced
  /\ quiet

\* C2: round trip. When a real undo() directly follows a non-dry-run
\* organize() that moved files, every file of the batch is back at its
\* original path with the content it had before organize(), and a folder that
\* did not exist before organize() and holds nothing but files of the batch
\* is gone after the undo.
C2_RoundTrip ==
  [][(UndoBatchStep /\ ~last'.dry /\ AfterCleanOrganize /\ last.ret > 0)
     => /\ last'.moves = last.moves
        /\ \A i \in 1..Len(last.moves) :
             LET m == last.moves[i]
                 F == Front(m.dest)
             IN  /\ IsFile(fs', m.src)
                 /\ IsFile(before, m.src)
                 /\ fs'[m.src].content = before[m.src].content
                 /\ (~Exists(before, F) /\ HoldsOnlyBatch(F)) => ~Exists(fs', F)]_vars

\* a real undo() has just reverted the batch of the organize() before it, and
\* the folder of one of its files is gone
C2_Witness ==
  /\ last.op = "undo" /\ last.ret = 1 /\ ~last.dry /\ last.calm /\ quiet
  /\ last.prev.op = "organize" /\ ~last.prev.dry /\ ~last.prev.raised
  /\ ~last.prev.raced /\ last.prev.ret > 0
  /\ \A i \in 1..Len(last.moves) : IsFile(fs, last.moves[i].src)
  /\ \E i \in 1..Len(last.moves) : ~Exists(fs, Front(last.moves[i].dest))

\* C3: dry run. No step of an organize() or undo() that was constructed with
\* dry_run changes the source tree or the history file.
C3_DryRunNoMutation == [][DryStep => fs' = fs /\ history_file' = history_file]_vars

\* the step of organize() that places a file took it away from its path and
\* put a file at a path that was free
Relocated ==
  /\ IsFile(fs, file_path)
  /\ ~Exists(fs', file_path)
  /\ \E q \in DOMAIN fs' \ DOMAIN fs : fs'[q].kind = "file"

\* a step of a non-dry-run organize() that directly follows a non-dry-run
\* organize() that returned
SecondRunStep ==
  /\ RealStep
  /\ last.op = "organize" /\ ~last.dry /\ ~last.raised
  /\ quiet

Candidate == <<target_folder_name, Last(file_path)>>

\* the k-th suffixed name of the file in its target folder
Suffixed(k) ==
  <<target_folder_name,
    Stem(Last(file_path)) \o <<"_">> \o Str(k) \o Suffix(Last(file_path))>>

\* the smallest k >= 1 whose suffixed name is free
FirstFreeK ==
  CHOOSE k \in 1..(Cardinality(DOMAIN fs) + 1) :
    /\ ~Exists(fs, Suffixed(k))
    /\ \A j \in 1..(k - 1) : Exists(fs, Suffixed(j))

\* organize() (not dry-run) is about to place an existing source file A whose
\* candidate destination already holds a file B
CollisionStep ==
  /\ MoveStep /\ ~dry_run
  /\ IsFile(fs, file_path)
  /\ IsFile(fs, Candidate)

\* C5 as stated, for two files that can be read, moved and deleted: on a
\* collision, identical content deletes A, leaves B alone and neither counts
\* nor records A; differing content leaves B under the original name and
\* puts A under the name with the _1 suffix.
C5_DedupAsStated ==
  [][(CollisionStep /\ fs[file_path].perm = "ok" /\ fs[Candidate].perm = "ok") =>
       IF fs[file_path].content = fs[Candidate].content
       THEN /\ ~Exists(fs', file_path)
            /\ IsFile(fs', Candidate) /\ fs'[Candidate] = fs[Candidate]
            /\ moved_count' = moved_count
            /\ current_batch' = current_batch
       ELSE /\ IsFile(fs', Candidate) /\ fs'[Candidate] = fs[Candidate]
            /\ ~Exists(fs', file_path)
            /\ DOMAIN fs' \ DOMAIN fs = {Suffixed(1)}
            /\ fs'[Suffixed(1)].content = fs[file_path].content]_vars

\* C5 (amended): on a collision B is never touched. If A and B have the same
\* content and both can be hashed, A is neither counted nor recorded, and it
\* is deleted unless the delete fails, in which case nothing changes. If the
\* content differs or a hash is unavailable, then when the move succeeds A is
\* gone from its path, sits under <stem>_<k><suffix> for the smallest k >= 1
\* that is free in the target folder, and that move is counted and recorded;
\* when the move fails A stays where it is and is not counted.
C5_Dedup ==
  [][CollisionStep =>
       /\ IsFile(fs', Candidate) /\ fs'[Candidate] = fs[Candidate]
       /\ IF /\ fs[file_path].content = fs[Candidate].content
             /\ fs[file_path].perm # "unreadable"
             /\ fs[Candidate].perm # "unreadable"
          THEN /\ moved_count' = moved_count
               /\ current_batch' = current_batch
               /\ IF fs[file_path].perm # "immutable"
                  THEN fs' = Without(fs, file_path)
                  ELSE fs' = fs
          ELSE IF moved_count' # moved_count
          THEN /\ moved_count' = moved_count + 1
               /\ ~Exists(fs', file_path)
               /\ IsFile(fs', Suffixed(FirstFreeK))
               /\ fs'[Suffixed(FirstFreeK)].content = fs[file_path].content
               /\ current_batch' =
                    Append(current_batch,
                           [src |-> file_path, dest |-> Suffixed(FirstFreeK)])
               /\ DOMAIN fs' = (DOMAIN fs \ {file_path}) \cup {Suffixed(FirstFreeK)}
          ELSE /\ IsFile(fs', file_path) /\ fs'[file_path] = fs[file_path]
               /\ current_batch' = current_batch]_vars

\* organize() has just deleted a source file as the duplicate of the file in
\* its target folder, and an earlier call put a file of another content next
\* to that one under a suffixed name
C5_Witness ==
  /\ pc = "scan" /\ ~dry_run /\ ~raced /\ moved_count = 0
  /\ file_path # None
  /\ IsFile(before, file_path) /\ ~Exists(fs, file_path)
  /\ IsFile(fs, Candidate)
  /\ fs[Candidate].content = before[file_path].content
  /\ IsFile(fs, Suffixed(1))
  /\ fs[Suffixed(1)].content # fs[Candidate].content
  /\ \E i \in 1..Len(history_file.batches) :
       \E j \in 1..Len(history_file.batches[i].moves) :
         history_file.batches[i].moves[j] = [src |-> file_path, dest |-> Suffixed(1)]

\* s reversed
Reverse(s) == [i \in 1..Len(s) |-> s[Len(s) + 1 - i]]

\* C6: undo consumes batches once, in LIFO order. A non-dry-run undo() on a
\* non-empty history finds a batch, removes exactly the most recent one from
\* the history file, keeps the older batches as they are and in order, visits
\* the records of the removed batch from the last to the first, and that
\* batch was not reverted by an undo() before.
C6_UndoLifo ==
  [][(UndoStep /\ ~last'.dry /\ history_file.exists /\ history_file.batches # <<>>)
     => /\ last'.ret = 1
        /\ history_file'.exists
        /\ history_file'.batches = Front(history_file.batches)
        /\ last'.stamp = Last(history_file.batches).timestamp
        /\ last'.moves = Last(history_file.batches).moves
        /\ last'.undone = Reverse(Last(history_file.batches).moves)
        /\ last'.stamp \notin undone_stamps
        /\ \A i \in 1..Len(history_file'.batches) :
             history_file'.batches[i].timestamp # last'.stamp]_vars

\* a real undo() has just reverted a batch of two records and left an older
\* batch in the history
C6_Witness ==
  /\ last.op = "undo" /\ ~last.dry /\ last.ret = 1
  /\ Len(last.undone) = 2
  /\ last.undone[1] # last.undone[2]
  /\ last.undone[1] = last.moves[2]
  /\ history_file.batches # <<>>
  /\ last.stamp \in undone_stamps

\* the persisted history holds at most 10 batches, oldest first, and they are
\* the most recent of the batches appended and not reverted since
CapInv ==
  LET H == history_file.batches
      n == Len(H)
  IN  /\ n <= 10
      /\ \A i \in 1..(n - 1) : H[i].timestamp < H[i + 1].timestamp
      /\ n <= Len(appended)
      /\ H = SubSeq(appended, Len(appended) - n + 1, Len(appended))

\* the step of organize() that appends its batch to the history file
AppendStep == FinishStep /\ ~dry_run /\ moved_count > 0

\* C7: history cap. After every step the persisted history holds at most 10
\* batches, oldest first, which are the most recently appended batches that
\* have not been undone; an organize() that appends to a history of 10
\* batches drops the oldest and nothing else, and one that appends to a
\* shorter history drops nothing.
C7_HistoryCap ==
  [][/\ CapInv'
     /\ AppendStep =>
          LET entry == [timestamp |-> calls, moves |-> current_batch]
          IN  IF Len(history_file.batches) = 10
              THEN history_file'.batches = Tail(history_file.batches) \o <<entry>>
              ELSE history_file'.batches = Append(history_file.batches, entry)]_vars

\* an eleventh batch has been appended to a full history: ten batches are
\* held and the oldest one appended is no longer among them
C7_Witness ==
  /\ Len(history_file.batches) = 10
  /\ Len(appended) = 11
  /\ history_file.batches[1] = appended[2]
  /\ last.op = "organize" /\ last.ret > 0

\* the eligible files of the source directory that are still in it
LeftBehind(f) == {p \in iterdir(f) : ~Skipped(f, p)}

OrganizeEnds == pc # "idle" /\ pc' = "idle" /\ last'.op = "organize"

\* C9: scan-then-act race. Under either strategy, when another process
\* removes a file between the listing and its classification or move,
\* organize() does not raise: a call ends only by returning, after every
\* entry of the listing has been visited, and a non-dry-run call that moved
\* files has then persisted their batch.
C9_RaceNonFatal ==
  [][OrganizeEnds =>
       /\ ~last'.raised
       /\ listing = {}
       /\ (~dry_run /\ moved_count > 0) =>
             /\ history_file'.batches # <<>>
             /\ Last(history_file'.batches).moves = current_batch]_vars

\* C10: return value and batch agree. In a non-dry-run organize() the count
\* goes up by one exactly at the steps that relocate a file (not at a
\* deduplicating delete, not at a failed move) and always equals the number
\* of records in the batch; the call returns that count; when it is positive
\* the batch appended to the history is that batch, and when it is 0 (the
\* return on an empty directory included) the history file is unchanged.
C10_CountMatchesBatch ==
  [][/\ (MoveStep /\ ~dry_run) =>
          /\ Len(current_batch) = moved_count
          /\ Len(current_batch') = moved_count'
          /\ IF Relocated THEN moved_count' = moved_count + 1
             ELSE moved_count' = moved_count
     /\ (FinishStep /\ ~dry_run) =>
          /\ last'.ret = moved_count
          /\ last'.ret = Len(current_batch)
          /\ IF moved_count > 0
             THEN /\ Len(history_file'.batches) =
                       IF Len(history_file.batches) < HistoryCap
                       THEN Len(history_file.batches) + 1 ELSE HistoryCap
                  /\ Last(history_file'.batches).moves = current_batch
                  /\ Len(Last(history_file'.batches).moves) = last'.ret
             ELSE history_file' = history_file
     /\ (pc = "idle" /\ pc' = "idle" /\ calls' # calls /\ last'.op = "organize"
           /\ ~last'.dry) =>
          /\ last'.ret = 0
          /\ history_file' = history_file /\ fs' = fs]_vars

\* a non-dry-run organize() has returned 1 after moving one file and deleting
\* another as a duplicate; the batch appended to the history has one record
C10_Witness ==
  /\ last.op = "organize" /\ ~last.dry /\ ~last.raised /\ ~last.raced
  /\ pc = "idle" /\ quiet
  /\ last.ret = 1
  /\ history_file.batches # <<>>
  /\ Last(history_file.batches).moves = last.moves
  /\ Last(history_file.batches).timestamp = last.stamp
  /\ Len(last.moves) = 1
  /\ \E p \in LeftBehind(before) :
       /\ ~Exists(fs, p)
       /\ last.moves[1].src # p
       /\ IsFile(fs, <<_get_extension_folder(Last(p)), Last(p)>>)

\* a step inside an organize() call
OrganizeStep == pc # "idle" /\ ToolStep

dex_history ==
  <<".", "d", "e", "x", "_", "h", "i", "s", "t", "o", "r", "y", ".", "j", "s", "o", "n">>

\* a file organize() must leave alone: its name is in the ignore set, it is
\* the history or the config file, or its extension marks a partial download
FilteredFile(f, p) ==
  /\ IsFile(f, p)
  /\ \/ Last(p) \in ignore_list
     \/ Last(p) \in {dex_history, config_yaml}
     \/ Suffix(Last(p)) \in {<<".", "t", "m", "p">>,
                             <<".", "c", "r", "d", "o", "w", "n", "l", "o", "a", "d">>,
                             <<".", "p", "a", "r", "t">>}

\* every entry of the source directory is a directory or a filtered file
OnlyFiltered(f) == \A p \in iterdir(f) : IsDir(f, p) \/ FilteredFile(f, p)

\* C11 as stated: no step of organize() moves, renames or deletes a
\* directory or a filtered file, and a call on a directory holding only such
\* entries returns 0 with every entry left in place.
C11_FilteringAsStated ==
  [][/\ OrganizeStep =>
          \A p \in DOMAIN fs :
            (IsDir(fs, p) \/ FilteredFile(fs, p)) =>
               p \in DOMAIN fs' /\ fs'[p] = fs[p]
     /\ (FinishStep /\ OnlyFiltered(before)) =>
          last'.ret = 0 /\ fs' = before]_vars

\* C11 (amended): no step of organize() moves, renames or deletes a filtered
\* file, and none moves or renames a directory; a directory disappears only
\* in the cleanup that ends a non-dry-run call, and then its name does not
\* start with "." and no file lies below it. A call on a directory holding
\* only directories and filtered files returns 0 with every file left in
\* place, and the history file is not written.
C11_Filtering ==
  [][/\ OrganizeStep =>
          /\ \A p \in DOMAIN fs :
               FilteredFile(fs, p) => p \in DOMAIN fs' /\ fs'[p] = fs[p]
          /\ \A p \in DOMAIN fs \ DOMAIN fs' :
               IsDir(fs, p) =>
                  /\ FinishStep /\ ~dry_run
                  /\ ~StartsWithDot(Last(p))
                  /\ \A q \in DOMAIN fs : IsPrefix(p, q) => IsDir(fs, q)
          /\ \A p \in DOMAIN fs \cap DOMAIN fs' : IsDir(fs, p) => IsDir(fs', p)
     /\ (FinishStep /\ OnlyFiltered(before)) =>
          /\ last'.ret = 0
          /\ history_file' = history_file
          /\ \A p \in DOMAIN before :
               IsFile(before, p) => p \in DOMAIN fs' /\ fs'[p] = before[p]]_vars

\* a non-dry-run organize() has returned 0 on a directory that holds a
\* partial download, an ignored file and folders, one of them empty: the
\* files are in place, the empty folder is gone
C11_Witness ==
  /\ last.op = "organize" /\ ~last.dry /\ ~last.raised /\ last.ret = 0
  /\ pc = "idle"
  /\ OnlyFiltered(before)
  /\ IsFile(before, <<x_tmp>>) /\ IsFile(fs, <<x_tmp>>)
  /\ IsFile(before, <<keep_me>>) /\ IsFile(fs, <<keep_me>>)
  /\ IsDir(fs, <<Stuff>>)
  /\ <<Docs>> \in DOMAIN before /\ ~Exists(fs, <<Docs>>)

\* the folder C12 promises for a file name: that of the first mapping whose
\* extension list holds the extension of the name, letter case ignored
FirstMatchIgnoringCase(name) ==
  LET ext == Lower(LStripDots(Suffix(name)))
      hits == {i \in 1..Len(mappings) :
                 \E e \in mappings[i].extensions : Lower(e) = ext}
  IN  IF ext = <<>> \/ hits = {} THEN Others
      ELSE mappings[CHOOSE i \in hits : \A j \in hits : i <= j].folder

\* C12: extension classification. Whenever organize() has classified a file
\* by extension, the target folder is that of the first mapping, in mapping
\* order, whose extension list contains the file's extension compared
\* case-insensitively, and Others when the file has no extension or no
\* mapping lists it.
C12_ExtensionClassification ==
  (pc = "move" /\ strategy = "extension") =>
     target_folder_name = FirstMatchIgnoringCase(Last(file_path))

\* the step of organize() that places a file appends a record to the batch
RecordStep == MoveStep /\ current_batch' # current_batch

\* the record just appended tells the truth: its destination is a file with
\* the content the source file had, the source path is free, the destination
\* was free before, and no other path has changed but for the target folder
\* that may have been created
TruthfulRecord ==
  LET r == Last(current_batch')
  IN  /\ current_batch' = Append(current_batch, r)
      /\ r.src = file_path
      /\ IsFile(fs, r.src)
      /\ ~Exists(fs', r.src)
      /\ ~Exists(fs, r.dest)
      /\ IsFile(fs', r.dest)
      /\ fs'[r.dest].content = fs[r.src].content
      /\ \A p \in DOMAIN fs \ {r.src} : p \in DOMAIN fs' /\ fs'[p] = fs[p]
      /\ DOMAIN fs' \ DOMAIN fs \subseteq {r.dest, Front(r.dest)}

\* C13 as stated: every record organize() appends to its batch is truthful
\* at the moment it is created.
C13_TruthfulAsStated == [][RecordStep => TruthfulRecord]_vars

\* C13 (amended): every record a non-dry-run organize() appends to its batch
\* is truthful at the moment it is created. (A dry run appends records of
\* the moves it would make; they are never persisted.)
C13_TruthfulRecords ==
  [][/\ (RecordStep /\ ~dry_run) => TruthfulRecord
     /\ (RecordStep /\ dry_run) =>
          /\ fs' = fs /\ history_file' = history_file
          /\ Last(current_batch').src = file_path]_vars

\* a non-dry-run organize() has just recorded a move that went to a suffixed
\* name because the original name was taken by another content
C13_Witness ==
  /\ pc = "scan" /\ ~dry_run /\ ~raced
  /\ current_batch # <<>>
  /\ file_path # None
  /\ Last(current_batch).src = file_path
  /\ Last(current_batch).dest = Suffixed(1)
  /\ IsFile(before, file_path) /\ ~Exists(before, Suffixed(1))
  /\ IsFile(fs, Suffixed(1)) /\ ~Exists(fs, file_path)
  /\ fs[Suffixed(1)].content = before[file_path].content
  /\ IsFile(fs, Candidate) /\ fs[Candidate].content # fs[Suffixed(1)].content

\* A is not deleted as a duplicate of B: the two digests are not both
\* available and equal
NotDuplicate ==
  \/ fs[file_path].perm = "unreadable"
  \/ fs[Candidate].perm = "unreadable"
  \/ fs[file_path].content # fs[Candidate].content

a_10_txt == <<"a", "_", "1", "0", ".", "t", "x", "t">>

\* C14: collision renaming. When the candidate destination exists and the
\* file is not a duplicate, the target chosen is <stem>_<k><suffix> for the
\* smallest k >= 1 whose name is free in the destination folder (every
\* smaller k names an existing entry); the step completes, and it overwrites
\* nothing: the only path that can appear is that target, and every entry
\* that existed, the source file apart, is unchanged.
C14_FirstFreeName ==
  [][(CollisionStep /\ NotDuplicate) =>
       LET k == FirstFreeK
       IN  /\ k >= 1
           /\ ~Exists(fs, Suffixed(k))
           /\ \A j \in 1..(k - 1) : Exists(fs, Suffixed(j))
           /\ pc' = "scan"
           /\ DOMAIN fs' \ DOMAIN fs \subseteq {Suffixed(k)}
           /\ \A p \in DOMAIN fs \ {file_path} : p \in DOMAIN fs' /\ fs'[p] = fs[p]
           /\ ~Exists(fs', file_path) =>
                 /\ IsFile(fs', Suffixed(k))
                 /\ fs'[Suffixed(k)].content = fs[file_path].content
                 /\ Last(current_batch').dest = Suffixed(k)]_vars

\* ten files named a.txt have collided in Docs: the last one went to
\* a_10.txt, after a_1.txt .. a_9.txt were found taken
C14_Witness ==
  /\ pc = "scan" /\ ~dry_run
  /\ current_batch # <<>>
  /\ Last(current_batch).dest = <<Docs, a_10_txt>>
  /\ IsFile(fs, <<Docs, a_10_txt>>)
  /\ ~Exists(before, <<Docs, a_10_txt>>)
  /\ \A j \in 1..9 : IsFile(before, Suffixed(j))
  /\ Suffixed(10) = <<Docs, a_10_txt>>

\* hashing A or B fails
HashUnavailable ==
  fs[file_path].perm = "unreadable" \/ fs[Candidate].perm = "unreadable"

\* C15: an unavailable hash is never a match. When the candidate destination
\* exists and hashing the source or the destination fails, the source is not
\* deleted as a duplicate, whatever the two files hold: either it is moved
\* to the first free suffixed name, counted and recorded, or the move fails
\* and it stays as it is, uncounted; the existing destination file is left
\* untouched.
C15_NoHashNoMatch ==
  [][(CollisionStep /\ HashUnavailable) =>
       /\ IsFile(fs', Candidate) /\ fs'[Candidate] = fs[Candidate]
       /\ \/ /\ IsFile(fs', file_path) /\ fs'[file_path] = fs[file_path]
             /\ moved_count' = moved_count
             /\ current_batch' = current_batch
          \/ /\ ~Exists(fs', file_path)
             /\ IsFile(fs', Suffixed(FirstFreeK))
             /\ fs'[Suffixed(FirstFreeK)] = fs[file_path]
             /\ moved_count' = moved_count + 1
             /\ current_batch' =
                  Append(current_batch,
                         [src |-> file_path, dest |-> Suffixed(FirstFreeK)])]_vars

\* a source file that could not be read and held the same content as the
\* file in its target folder has been moved next to it under the _1 name
C15_Witness ==
  /\ pc = "scan" /\ ~dry_run /\ ~raced
  /\ file_path # None
  /\ IsFile(before, file_path) /\ before[file_path].perm = "unreadable"
  /\ IsFile(before, Candidate)
  /\ before[Candidate].content = before[file_path].content
  /\ ~Exists(fs, file_path)
  /\ IsFile(fs, Candidate) /\ fs[Candidate] = before[Candidate]
  /\ IsFile(fs, Suffixed(1)) /\ fs[Suffixed(1)] = before[file_path]
  /\ current_batch # <<>> /\ Last(current_batch).dest = Suffixed(1)

\* C16: undo tolerates missing or failing records. A non-dry-run undo() on
\* a non-empty history completes and removes the batch from the history
\* file; a record whose destination is gone changes nothing; every record
\* whose destination still exists and whose restore cannot fail (the file can
\* be renamed, the original path is free) is back at its original path with
\* its content and gone from the destination; a record whose restore fails
\* leaves its file at the destination.
C16_UndoTolerant ==
  [][(UndoStep /\ ~last'.dry /\ history_file.exists /\ history_file.batches # <<>>)
     => LET moves == Last(history_file.batches).moves
        IN  /\ last'.ret = 1 /\ ~last'.raised
            /\ history_file'.batches = Front(history_file.batches)
            /\ Len(last'.undone) = Len(moves)
            /\ \A i \in 1..Len(moves) :
                 LET m == moves[i]
                 IN  IF ~Exists(fs, m.dest)
                     THEN /\ ~Exists(fs', m.dest)
                          /\ Exists(fs', m.src) = Exists(fs, m.src)
                          /\ Exists(fs, m.src) => fs'[m.src] = fs[m.src]
                     ELSE IF fs[m.dest].perm # "immutable" /\ ~Exists(fs, m.src)
                     THEN /\ IsFile(fs', m.src)
                          /\ fs'[m.src] = fs[m.dest]
                          /\ ~Exists(fs', m.dest)
                     ELSE \/ /\ IsFile(fs', m.src)
                             /\ fs'[m.src] = fs[m.dest]
                             /\ ~Exists(fs', m.dest)
                          \/ /\ Exists(fs', m.dest) /\ fs'[m.dest] = fs[m.dest]
                             /\ Exists(fs', m.src) = Exists(fs, m.src)
                             /\ Exists(fs, m.src) => fs'[m.src] = fs[m.src]]_vars

\* a real undo() has reverted a batch of two records: the destination of the
\* last record, the first one visited, was gone, and the file of the other
\* record is back at its original path
C16_Witness ==
  /\ last.op = "undo" /\ ~last.dry /\ last.ret = 1
  /\ last.stamp \in undone_stamps
  /\ Len(last.moves) = 2
  /\ last.undone = <<last.moves[2], last.moves[1]>>
  /\ ~Exists(fs, last.moves[2].src) /\ ~Exists(fs, last.moves[2].dest)
  /\ IsFile(fs, last.moves[1].src) /\ ~Exists(fs, last.moves[1].dest)
  /\ \A i \in 1..Len(history_file.batches) :
       history_file.batches[i].timestamp # last.stamp

\* a step that ends with _cleanup_empty_folders(): the return of a
\* non-dry-run organize(), or an undo() that found a batch
CleanupStep == (FinishStep /\ ~dry_run) \/ UndoBatchStep

\* the directories that are gone after the step
RemovedDirs == {p \in DOMAIN fs \ DOMAIN fs' : IsDir(fs, p)}

InHidden(p) == \E i \in 1..Len(p) : StartsWithDot(p[i])

\* C18: cleanup skips hidden folders. No step that ends with the cleanup
\* removes a directory whose name starts with "." or a directory located
\* inside such a folder.
C18_HiddenSkipped ==
  [][CleanupStep => \A p \in RemovedDirs : ~InHidden(p)]_vars

\* the folders the organizer makes: the mapping targets, Others and the
\* date buckets
OwnFolders ==
  {mappings[i].folder : i \in 1..Len(mappings)} \cup {Others}
    \cup {StrfTime(m) : m \in Months}

\* C19: cleanup removes only the organizer's own folders. Outside hidden
\* folders, every directory that a step ending with the cleanup removes is a
\* mapping target or a date bucket directly below the source directory; an
\* empty folder of the user is left in place.
C19_OnlyOwnFolders ==
  [][CleanupStep =>
       \A p \in RemovedDirs :
         ~InHidden(p) => (Len(p) = 1 /\ p[1] \in OwnFolders)]_vars

\* a step of organize() leaves everything inside the subdirectories alone,
\* but for the file it puts there and the empty folders it removes
SubdirsUntouched ==
  /\ pc = "move" => Len(file_path) = 1
  /\ \A p \in DOMAIN fs :
       (Len(p) >= 2 /\ IsFile(fs, p)) => p \in DOMAIN fs' /\ fs'[p] = fs[p]

\* a run of the command line with --recursive has ended
RecursiveRunEnds ==
  pc = "idle" /\ calls' = calls + 1 /\ last'.op = "main" /\ last'.recursive

\* C20: scan depth. organize() considers only direct children of the source
\* directory and never moves a file that lies in a subdirectory; a run with
\* the recursive option set does not fail: it constructs the organizer and
\* goes on to scan.
C20_ScanDepth ==
  [][/\ OrganizeStep => SubdirsUntouched
     /\ RecursiveRunEnds => ~last'.raised]_vars

====
